---- MODULE Spec2Model ----
(***************************************************************************)
(* Wedding WhatsApp RSVP bot: the guest store (internal/storage), the      *)
(* phone-number normaliser and message sender (internal/whatsapp) and the  *)
(* RSVP handler (internal/handler), as a state machine.                    *)
(*                                                                         *)
(* Strings that the code takes apart (phone numbers, sender ids, message   *)
(* texts) are sequences of one-character strings; strings that the code    *)
(* only compares or stores (names, notes, statuses) are TLA+ strings.      *)
(* time.Time values are naturals, 0 being the zero time (IsZero).          *)
(***************************************************************************)
EXTENDS Naturals, Sequences, FiniteSets

VARIABLES
    guests,    \* Storage.guests: the in-memory slice of models.Guest
    file,      \* the backing file Storage.file names: [kind, data]
    mu,        \* Storage.mu (sync.RWMutex): [writer, readers]
    clock,     \* what time.Now() returns
    pc,        \* pc[t]: where goroutine t stands
    call,      \* call[t]: the arguments and locals of the handler call t is in
    ret        \* the return of a handler call, in the state the return leads to

vars == <<guests, file, mu, clock, pc, call, ret>>

-----------------------------------------------------------------------------
(* Bounds *)

\* time.Now() ranges over 1..MaxClock
MaxClock == 2

-----------------------------------------------------------------------------
(* models.RSVPStatus *)

RSVPPending == "pending"
RSVPAccepted == "accepted"
RSVPDeclined == "declined"
RSVPNotInvited == "not_invited"

\* the zero value of RSVPStatus (a Go string)
NoStatus == ""

\* the zero time.Time
ZeroTime == 0

\* models.Guest
Guest(phoneNumber, name, status, rsvpDate, invitedDate, notes) ==
    [PhoneNumber |-> phoneNumber, Name |-> name, RSVPStatus |-> status,
     RSVPDate |-> rsvpDate, InvitedDate |-> invitedDate, Notes |-> notes]

-----------------------------------------------------------------------------
(* strings *)

\* strings.ReplaceAll(s, c, "") for every one-character c in cs
StripChars(s, cs) == SelectSeq(s, LAMBDA c : c \notin cs)

\* strings.HasPrefix
HasPrefix(s, p) == Len(s) >= Len(p) /\ SubSeq(s, 1, Len(p)) = p

\* strings.Contains
Contains(s, sub) ==
    \E i \in 0..(Len(s) - Len(sub)) : SubSeq(s, i + 1, i + Len(sub)) = sub

\* strings.Split(s, sep)[0] for a one-character sep
BeforeFirst(s, sep) ==
    IF \E i \in 1..Len(s) : s[i] = sep
    THEN SubSeq(s, 1, (CHOOSE i \in 1..Len(s) :
                          s[i] = sep /\ \A j \in 1..(i - 1) : s[j] # sep) - 1)
    ELSE s

UpperCase == <<"A","B","C","D","E","F","G","H","I","J","K","L","M",
               "N","O","P","Q","R","S","T","U","V","W","X","Y","Z">>
LowerCase == <<"a","b","c","d","e","f","g","h","i","j","k","l","m",
               "n","o","p","q","r","s","t","u","v","w","x","y","z">>

LowerChar(c) ==
    IF \E i \in 1..26 : UpperCase[i] = c
    THEN LowerCase[CHOOSE i \in 1..26 : UpperCase[i] = c]
    ELSE c

\* strings.ToLower
ToLower(s) == [i \in 1..Len(s) |-> LowerChar(s[i])]

WhiteSpace == {" ", "\t", "\n", "\r"}

\* strings.TrimSpace
TrimSpace(s) ==
    LET keep == {i \in 1..Len(s) : s[i] \notin WhiteSpace}
    IN IF keep = {} THEN <<>>
       ELSE SubSeq(s, CHOOSE i \in keep : \A j \in keep : i <= j,
                      CHOOSE i \in keep : \A j \in keep : i >= j)

-----------------------------------------------------------------------------
(* whatsapp.NormalizePhoneNumber *)

CountryCode == <<"9","7","2">>

NormalizePhoneNumber(phoneNumber) ==
    LET stripped == StripChars(phoneNumber, {"+", " ", "-", "(", ")"})
        local == IF HasPrefix(stripped, <<"0">>) /\ Len(stripped) = 10
                 THEN CountryCode \o SubSeq(stripped, 2, Len(stripped))
                 ELSE stripped
    IN IF HasPrefix(local, CountryCode \o <<"0">>)
       THEN CountryCode \o SubSeq(local, 5, Len(local))
       ELSE local

-----------------------------------------------------------------------------
(* handler: the sender's key and the classification of the text *)

\* the sender id without its server, normalised as SendInvitation normalises
SenderPhoneNumberNormalized(sender) ==
    NormalizePhoneNumber(BeforeFirst(sender, "@"))

\* HandleMessage: the phone number taken from the sender id
SenderPhoneNumber(sender) == StripChars(BeforeFirst(sender, "@"), {"+", " "})

AcceptKeywords == {
    <<"y","e","s">>, <<"y","e","p">>, <<"y","e","a","h">>,
    <<"a","c","c","e","p","t">>, <<"a","c","c","e","p","t","i","n","g">>,
    <<"a","t","t","e","n","d","i","n","g">>, <<"c","o","m","i","n","g">>,
    <<"w","i","l","l"," ","c","o","m","e">>,
    <<"w","i","l","l"," ","b","e"," ","t","h","e","r","e">>,
    <<"[check mark]">> }

DeclineKeywords == {
    <<"n","o">>, <<"n","o","p","e">>, <<"d","e","c","l","i","n","e">>,
    <<"d","e","c","l","i","n","i","n","g">>,
    <<"n","o","t"," ","c","o","m","i","n","g">>,
    <<"c","a","n","'","t"," ","c","o","m","e">>,
    <<"w","o","n","'","t"," ","c","o","m","e">>,
    <<"c","a","n","'","t"," ","m","a","k","e"," ","i","t">>,
    <<"[cross mark]">> }

containsAny(text, keywords) == \E keyword \in keywords : Contains(text, keyword)

\* a classifier that takes every text that is no acceptance for a refusal
NewStatusNeverUnrecognized(text) ==
    IF containsAny(ToLower(TrimSpace(text)), AcceptKeywords)
    THEN RSVPAccepted ELSE RSVPDeclined

\* a classifier that wants the text to be a keyword
NewStatusWholeText(text) ==
    LET t == ToLower(TrimSpace(text))
    IN IF t \in AcceptKeywords THEN RSVPAccepted
       ELSE IF t \in DeclineKeywords THEN RSVPDeclined
       ELSE NoStatus

\* a classifier that looks for a refusal first
NewStatusDeclineFirst(text) ==
    LET t == ToLower(TrimSpace(text))
    IN IF containsAny(t, DeclineKeywords) THEN RSVPDeclined
       ELSE IF containsAny(t, AcceptKeywords) THEN RSVPAccepted
       ELSE NoStatus

\* HandleMessage: the status the text asks for, NoStatus when it is no RSVP
NewStatus(text) ==
    LET t == ToLower(TrimSpace(text))
    IN IF containsAny(t, AcceptKeywords) THEN RSVPAccepted
       ELSE IF containsAny(t, DeclineKeywords) THEN RSVPDeclined
       ELSE NoStatus

-----------------------------------------------------------------------------
(* storage.Storage: the in-memory slice *)

\* the index of the first record with this phone number, 0 when there is none
\* (the range loops of AddGuest, GetGuest and UpdateRSVP)
IndexOf(gs, phoneNumber) ==
    IF \E i \in 1..Len(gs) : gs[i].PhoneNumber = phoneNumber
    THEN CHOOSE i \in 1..Len(gs) :
            /\ gs[i].PhoneNumber = phoneNumber
            /\ \A j \in 1..(i - 1) : gs[j].PhoneNumber # phoneNumber
    ELSE 0

\* an update of an existing guest that takes the invitation date handed in
MergeGuestTakingInvitedDate(g, guest) ==
    [guest EXCEPT !.RSVPStatus = IF guest.RSVPStatus = RSVPNotInvited
                                 THEN g.RSVPStatus
                                 ELSE guest.RSVPStatus]

\* an update of an existing guest that keeps an acceptance or a refusal
MergeGuestKeepingResponse(g, guest) ==
    [guest EXCEPT !.InvitedDate = g.InvitedDate,
                  !.RSVPStatus = IF \/ guest.RSVPStatus = RSVPNotInvited
                                    \/ g.RSVPStatus \in {RSVPAccepted, RSVPDeclined}
                                 THEN g.RSVPStatus
                                 ELSE guest.RSVPStatus]

\* an update of an existing guest that keeps the record's RSVP date
MergeGuestKeepingRSVPDate(g, guest) ==
    [guest EXCEPT !.InvitedDate = g.InvitedDate,
                  !.RSVPDate = g.RSVPDate,
                  !.RSVPStatus = IF guest.RSVPStatus = RSVPNotInvited
                                 THEN g.RSVPStatus
                                 ELSE guest.RSVPStatus]

\* AddGuest, "Update existing guest": what replaces the existing record g
MergeGuest(g, guest) ==
    [guest EXCEPT !.InvitedDate = g.InvitedDate,
                  !.RSVPStatus = IF guest.RSVPStatus = RSVPNotInvited
                                 THEN g.RSVPStatus
                                 ELSE guest.RSVPStatus]

\* a new guest appended as it is handed in
NewGuestAsGiven(guest, now) == guest

\* AddGuest, "Add new guest": the record that is appended
NewGuest(guest, now) ==
    [guest EXCEPT !.InvitedDate = IF guest.InvitedDate = ZeroTime
                                  THEN now ELSE guest.InvitedDate,
                  !.RSVPStatus = IF guest.RSVPStatus = NoStatus
                                 THEN RSVPPending ELSE guest.RSVPStatus]

\* an AddGuest that takes the record it updates out of the slice and appends
\* the updated record
AddGuestAtMovingToEnd(gs, i, guest, now) ==
    IF i # 0
    THEN Append(SelectSeq([gs EXCEPT ![i] = [gs[i] EXCEPT !.PhoneNumber = <<>>]],
                          LAMBDA g : g.PhoneNumber # <<>>),
                MergeGuest(gs[i], guest))
    ELSE Append(gs, NewGuest(guest, now))

\* AddGuest: the slice after the call, when the loop found the phone number at
\* index i (0: it did not)
AddGuestAt(gs, i, guest, now) ==
    IF i # 0
    THEN [gs EXCEPT ![i] = MergeGuest(gs[i], guest)]
    ELSE Append(gs, NewGuest(guest, now))

\* AddGuest: the slice after the call
AddGuestMem(gs, guest, now) ==
    AddGuestAt(gs, IndexOf(gs, guest.PhoneNumber), guest, now)

\* UpdateRSVP: s.guests[i].RSVPStatus = status
SetRSVPStatus(gs, i, status) ==
    [gs EXCEPT ![i] = [gs[i] EXCEPT !.RSVPStatus = status]]

\* an UpdateRSVP that writes the notes it is handed, empty or not
SetRSVPDateAndNotes(gs, i, notes, now) ==
    [gs EXCEPT ![i] = [gs[i] EXCEPT !.RSVPDate = now, !.Notes = notes]]

\* UpdateRSVP: s.guests[i].RSVPDate = time.Now(), and the notes when there
\* are any
SetRSVPDate(gs, i, notes, now) ==
    [gs EXCEPT ![i] = [gs[i] EXCEPT !.RSVPDate = now,
                                    !.Notes = IF notes # "" THEN notes
                                              ELSE gs[i].Notes]]

\* an UpdateRSVP that writes the status to every record of the slice
UpdateRSVPMemEveryRecord(gs, i, status, notes, now) ==
    [j \in 1..Len(gs) |-> [gs[j] EXCEPT !.RSVPStatus = status,
                                        !.RSVPDate = now]]

\* UpdateRSVP: the slice after the call, for the record found at index i
UpdateRSVPMem(gs, i, status, notes, now) ==
    [gs EXCEPT ![i] = [gs[i] EXCEPT !.RSVPStatus = status,
                                    !.RSVPDate = now,
                                    !.Notes = IF notes # "" THEN notes
                                              ELSE gs[i].Notes]]

-----------------------------------------------------------------------------
(* storage.Storage: the backing file *)

\* json.MarshalIndent of one Guest: notes has omitempty; rsvp_date has it too,
\* to no effect on a struct, so the zero time is written like any other
MarshalGuest(g) ==
    LET always == [phone_number |-> g.PhoneNumber, name |-> g.Name,
                   rsvp_status |-> g.RSVPStatus, rsvp_date |-> g.RSVPDate,
                   invited_date |-> g.InvitedDate]
    IN IF g.Notes = "" THEN always
       ELSE [phone_number |-> g.PhoneNumber, name |-> g.Name,
             rsvp_status |-> g.RSVPStatus, rsvp_date |-> g.RSVPDate,
             invited_date |-> g.InvitedDate, notes |-> g.Notes]

\* json.MarshalIndent(s.guests, "", "  ")
Marshal(gs) == [i \in 1..Len(gs) |-> MarshalGuest(gs[i])]

\* no file at the path (os.Stat fails in NewStorage)
NoFile == [kind |-> "missing", data |-> <<>>]

\* a file holding the JSON array data
JSONFile(data) == [kind |-> "json", data |-> data]

\* what os.MkdirAll and os.WriteFile can do in Save: write the whole file, fail
\* before touching it, or fail after os.WriteFile truncated it, with nothing
\* or with a part of the data written
SaveOutcomes == {"ok", "untouched", "truncated", "partial"}

FileAfterSave(f, gs, outcome) ==
    CASE outcome = "ok" -> JSONFile(Marshal(gs))
      [] outcome = "untouched" -> f
      [] outcome = "truncated" -> [kind |-> "empty", data |-> <<>>]
      [] outcome = "partial" -> [kind |-> "partial", data |-> <<>>]

-----------------------------------------------------------------------------
(* goroutines *)

\* main starts the CLI in a goroutine of its own; the WhatsApp client calls the
\* message handler from its event goroutine
CLI == "cli"
EV == "ev"
Threads == {CLI, EV}
NoThread == "none"

\* the errors the store and the handler return (Nil for none)
Nil == "nil"
ErrNotFound == "guest not found"
ErrSave == "save failed"
ErrAddGuest == "failed to add guest"
ErrUpdateRSVP == "failed to update RSVP"
ErrSendInvitation == "failed to send invitation"
ErrSendConfirmation == "failed to send confirmation"
ErrLoad == "failed to load storage"

\* json.Unmarshal of one object of the array: a field the object does not
\* have keeps its zero value
UnmarshalGuest(o) ==
    Guest(o.phone_number, o.name, o.rsvp_status, o.rsvp_date, o.invited_date,
          IF "notes" \in DOMAIN o THEN o.notes ELSE "")

\* json.Unmarshal(data, &s.guests)
Unmarshal(data) == [i \in 1..Len(data) |-> UnmarshalGuest(data[i])]

\* a Load that hands an empty file to json.Unmarshal
LoadParsingEmptyFile(f) ==
    IF f.kind = "json" THEN [guests |-> Unmarshal(f.data), err |-> Nil]
    ELSE [guests |-> <<>>, err |-> ErrLoad]

\* Load of a file that exists: the slice and the error.  A file cut short is
\* no JSON; a file of no bytes gives the empty slice
Load(f) ==
    CASE f.kind = "empty" -> [guests |-> <<>>, err |-> Nil]
      [] f.kind = "json" -> [guests |-> Unmarshal(f.data), err |-> Nil]
      [] f.kind = "partial" -> [guests |-> <<>>, err |-> ErrLoad]

\* call[t]: the phone number the call works with (SendInvitation's argument,
\* HandleMessage's local), SendInvitation's name, HandleMessage's newStatus
Call(op, phoneNumber, name, newStatus) ==
    [op |-> op, phoneNumber |-> phoneNumber, name |-> name,
     newStatus |-> newStatus]
NoCall == Call("none", <<>>, "", "")

\* ret: which goroutine's call returned, the call, the error, the return
\* statement and the sends the call made; NoResult when the last step was no
\* return
NoResult == [thread |-> NoThread, call |-> NoCall, err |-> Nil,
             at |-> "none", sends |-> <<>>]

\* a mutex that excludes nobody
CanLockAlways == TRUE

\* s.mu.Lock() returns
CanLock == mu.writer = NoThread /\ mu.readers = {}
\* a mutex that lets readers in beside a writer
CanRLockAlways == TRUE

\* s.mu.RLock() returns
CanRLock == mu.writer = NoThread

\* t goes on inside its call, with the locals c
Goto(t, c, label) ==
    /\ pc' = [pc EXCEPT ![t] = label]
    /\ call' = [call EXCEPT ![t] = c]
    /\ ret' = NoResult

\* t's call, with the locals c, returns err at the return statement named,
\* having made the sends given
Return(t, c, err, at, sends) ==
    /\ pc' = [pc EXCEPT ![t] = "idle"]
    /\ call' = [call EXCEPT ![t] = NoCall]
    /\ ret' = [thread |-> t, call |-> c, err |-> err, at |-> at,
               sends |-> sends]

Init ==
    /\ guests = <<>>
    /\ file = NoFile
    /\ mu = [writer |-> NoThread, readers |-> {}]
    /\ clock = 1
    /\ pc = [t \in Threads |-> "idle"]
    /\ call = [t \in Threads |-> NoCall]
    /\ ret = NoResult

\* time passes
Tick ==
    /\ clock < MaxClock
    /\ clock' = clock + 1
    /\ ret' = NoResult
    /\ UNCHANGED <<guests, file, mu, pc, call>>

-----------------------------------------------------------------------------
(* storage.Storage: the methods, each under Storage.mu *)

\* AddGuest as one step: Lock, the body, Save, the deferred Unlock.  The
\* mutex makes the call atomic for every other caller of the store.
AddGuest(guest, outcome) ==
    /\ CanLock
    /\ guests' = AddGuestMem(guests, guest, clock)
    /\ file' = FileAfterSave(file, AddGuestMem(guests, guest, clock), outcome)
    /\ UNCHANGED <<mu, clock>>

\* UpdateRSVP as one step, for a phone number that has a record
UpdateRSVP(phoneNumber, status, notes, outcome) ==
    LET after == UpdateRSVPMem(guests, IndexOf(guests, phoneNumber),
                               status, notes, clock)
    IN /\ CanLock
       /\ IndexOf(guests, phoneNumber) # 0
       /\ guests' = after
       /\ file' = FileAfterSave(file, after, outcome)
       /\ UNCHANGED <<mu, clock>>

\* UpdateRSVP as one step, for a phone number that has no record
UpdateRSVPNotFound(phoneNumber) ==
    /\ CanLock
    /\ IndexOf(guests, phoneNumber) = 0
    /\ UNCHANGED <<guests, file, mu, clock>>

\* a GetGuest that finds a record for every phone number
GetGuestFindsAnyone(phoneNumber) == phoneNumber = phoneNumber

\* GetGuest as one step (RLock, the loop, RUnlock): whether it finds a record
GetGuestFinds(phoneNumber) == IndexOf(guests, phoneNumber) # 0

-----------------------------------------------------------------------------
(* whatsapp.Service: SendInvitation and SendMessage *)

\* IsOnWhatsApp fails, reports the number not registered, or the client's
\* SendMessage fails or succeeds
SendOutcomes == {"sent", "verify failed", "not on WhatsApp", "send failed"}

-----------------------------------------------------------------------------
(* handler.RSVPHandler *)

\* "0501112222", "9720055": what the operator types at the CLI
RawPhones == { <<"0","5","0","1","1","1","2","2","2","2">>,
               <<"9","7","2","0","0","5","5">> }

Names == {"Dana"}

Server == <<"@","s",".","w","h","a","t","s","a","p","p",".","n","e","t">>

\* the senders of inbound messages: the two numbers above as WhatsApp knows
\* them, and a number nobody invites
Sender1 == <<"9","7","2","5","0","1","1","1","2","2","2","2">> \o Server
Sender2 == <<"9","7","2","0","5","5">> \o Server
Stranger == <<"1","5","5","5","0","0","0","1">> \o Server
\* the first number as the operator types it, as a sender id
Sender3 == <<"0","5","0","1","1","1","2","2","2","2">> \o Server
Senders == {Sender1, Sender2, Sender3, Stranger}

\* "", "Yes, can't wait!", " NO ", "maybe"
NoText == <<>>
TextYes == <<"Y","e","s",","," ","c","a","n","'","t"," ","w","a","i","t","!">>
TextNo == <<" ","N","O"," ">>
TextMaybe == <<"m","a","y","b","e">>
Texts == {NoText, TextYes, TextNo, TextMaybe}

\* events.Message: Message may be nil
Message(isNil, sender, text) ==
    [isNil |-> isNil, sender |-> sender, text |-> text]
InboundMessages ==
    {Message(TRUE, Sender1, NoText), Message(FALSE, Sender2, TextYes),
     Message(FALSE, Sender3, TextYes), Message(FALSE, Stranger, TextYes)}
      \cup {Message(FALSE, Sender1, text) : text \in Texts}

\* the functions above on the inputs of the model, evaluated once
Normalized ==
    [p \in RawPhones \cup {SenderPhoneNumber(sender) : sender \in Senders} |->
        NormalizePhoneNumber(p)]
PhoneNumberOf == [sender \in Senders |-> SenderPhoneNumber(sender)]
NewStatusOf == [text \in Texts |-> NewStatus(text)]

\* a send to the number as it is handed over
SendAttemptAsGiven(phoneNumber, message) ==
    [to |-> phoneNumber, message |-> message]

\* one call of Service.SendInvitation or Service.SendMessage: the number is
\* normalised again before it is verified and the message sent
SendAttempt(phoneNumber, message) ==
    [to |-> Normalized[phoneNumber], message |-> message]

\* the guest SendInvitation hands to AddGuest
InvitedGuest(phoneNumber, name) ==
    Guest(Normalized[phoneNumber], name, RSVPPending, ZeroTime, ZeroTime, "")

\* the confirmation HandleMessage words for the new status
ResponseMessage(newStatus) ==
    IF newStatus = RSVPAccepted THEN "confirmed attendance"
    ELSE "sorry you won't join"

\* a SendInvitation that goes on to the send without the call of AddGuest
SendInvitationOfNotStoring(t, phoneNumber, name, outcome) ==
    /\ pc[t] = "idle"
    /\ Goto(t, Call("SendInvitation", phoneNumber, name, ""), "SendInvitation")
    /\ UNCHANGED <<guests, file, mu, clock>>

\* a SendInvitation that goes on to the send whatever AddGuest returns
SendInvitationOfSendingAnyway(t, phoneNumber, name, outcome) ==
    /\ pc[t] = "idle"
    /\ Goto(t, Call("SendInvitation", phoneNumber, name, ""), "SendInvitation")
    /\ AddGuest(InvitedGuest(phoneNumber, name), outcome)

\* SendInvitation(phoneNumber, name) up to the return of h.storage.AddGuest,
\* whose Save ends with outcome
SendInvitationOf(t, phoneNumber, name, outcome) ==
    LET c == Call("SendInvitation", phoneNumber, name, "")
    IN /\ pc[t] = "idle"
       /\ IF outcome = "ok"
          THEN Goto(t, c, "SendInvitation")
          ELSE Return(t, c, ErrAddGuest, "SendInvitation:114", <<>>)
       /\ AddGuest(InvitedGuest(phoneNumber, name), outcome)

SendInvitation(t) ==
    \E phoneNumber \in RawPhones, name \in Names, outcome \in SaveOutcomes :
        SendInvitationOf(t, phoneNumber, name, outcome)

\* a SendInvitation that takes the guest off the list again when the send fails
SendInvitationSendOfUndoing(t, outcome) ==
    LET sends == <<SendAttempt(call[t].phoneNumber, "invitation")>>
        key == Normalized[call[t].phoneNumber]
        undone == SelectSeq(guests, LAMBDA g : g.PhoneNumber # key)
    IN /\ pc[t] = "SendInvitation"
       /\ IF outcome = "sent"
          THEN /\ Return(t, call[t], Nil, "SendInvitation:129", sends)
               /\ UNCHANGED <<guests, file>>
          ELSE /\ Return(t, call[t], ErrSendInvitation, "SendInvitation:126",
                         sends)
               /\ guests' = undone
               /\ file' = JSONFile(Marshal(undone))
       /\ UNCHANGED <<mu, clock>>

\* SendInvitation: h.whatsappService.SendInvitation(phoneNumber, ...), which
\* ends with outcome
SendInvitationSendOf(t, outcome) ==
    LET sends == <<SendAttempt(call[t].phoneNumber, "invitation")>>
    IN /\ pc[t] = "SendInvitation"
       /\ IF outcome = "sent"
          THEN Return(t, call[t], Nil, "SendInvitation:129", sends)
          ELSE Return(t, call[t], ErrSendInvitation, "SendInvitation:126", sends)
       /\ UNCHANGED <<guests, file, mu, clock>>

SendInvitationSend(t) ==
    \E outcome \in SendOutcomes : SendInvitationSendOf(t, outcome)

\* HandleMessage(msg) up to the call of h.storage.UpdateRSVP: a nil message,
\* an empty text, a sender GetGuest does not find and a text that is no RSVP
\* return nil
HandleMessageOf(t, msg) ==
    LET c0 == Call("HandleMessage", <<>>, "", "")
        c1 == Call("HandleMessage", PhoneNumberOf[msg.sender], "", "")
        c2 == Call("HandleMessage", PhoneNumberOf[msg.sender], "",
                   NewStatusOf[msg.text])
    IN /\ pc[t] = "idle"
       /\ IF msg.isNil
          THEN Return(t, c0, Nil, "HandleMessage:39", <<>>)
          ELSE IF msg.text = <<>>
          THEN Return(t, c0, Nil, "HandleMessage:44", <<>>)
          ELSE /\ CanRLock
               /\ IF ~GetGuestFinds(c1.phoneNumber)
                  THEN Return(t, c1, Nil, "HandleMessage:59", <<>>)
                  ELSE IF c2.newStatus = NoStatus
                  THEN Return(t, c2, Nil, "HandleMessage:85", <<>>)
                  ELSE Goto(t, c2, "UpdateRSVP")
       /\ UNCHANGED <<guests, file, mu, clock>>

HandleMessage(t) == \E msg \in InboundMessages : HandleMessageOf(t, msg)

\* HandleMessage: h.storage.UpdateRSVP(phoneNumber, newStatus, ""), whose
\* Save ends with outcome
HandleMessageUpdateRSVPOf(t, outcome) ==
    /\ pc[t] = "UpdateRSVP"
    /\ IF GetGuestFinds(call[t].phoneNumber)
       THEN /\ IF outcome = "ok"
               THEN Goto(t, call[t], "SendMessage")
               ELSE Return(t, call[t], ErrUpdateRSVP, "HandleMessage:90", <<>>)
            /\ UpdateRSVP(call[t].phoneNumber, call[t].newStatus, "", outcome)
       ELSE /\ Return(t, call[t], ErrUpdateRSVP, "HandleMessage:90", <<>>)
            /\ UpdateRSVPNotFound(call[t].phoneNumber)

HandleMessageUpdateRSVP(t) ==
    \E outcome \in SaveOutcomes : HandleMessageUpdateRSVPOf(t, outcome)

\* a HandleMessage that sets the guest back to pending when the confirmation
\* cannot be sent
HandleMessageSendOfRollingBack(t, outcome) ==
    LET sends == <<SendAttempt(call[t].phoneNumber,
                               ResponseMessage(call[t].newStatus))>>
        i == IndexOf(guests, call[t].phoneNumber)
        back == [guests EXCEPT ![i] = [guests[i] EXCEPT
                                          !.RSVPStatus = RSVPPending,
                                          !.RSVPDate = ZeroTime]]
    IN /\ pc[t] = "SendMessage"
       /\ IF outcome = "sent"
          THEN /\ Return(t, call[t], Nil, "HandleMessage:98", sends)
               /\ UNCHANGED <<guests, file>>
          ELSE /\ Return(t, call[t], ErrSendConfirmation, "HandleMessage:95",
                         sends)
               /\ guests' = back
               /\ file' = JSONFile(Marshal(back))
       /\ UNCHANGED <<mu, clock>>

\* HandleMessage: h.whatsappService.SendMessage(phoneNumber, responseMessage),
\* which ends with outcome
HandleMessageSendOf(t, outcome) ==
    LET sends == <<SendAttempt(call[t].phoneNumber,
                               ResponseMessage(call[t].newStatus))>>
    IN /\ pc[t] = "SendMessage"
       /\ IF outcome = "sent"
          THEN Return(t, call[t], Nil, "HandleMessage:98", sends)
          ELSE Return(t, call[t], ErrSendConfirmation, "HandleMessage:95", sends)
       /\ UNCHANGED <<guests, file, mu, clock>>

HandleMessageSend(t) ==
    \E outcome \in SendOutcomes : HandleMessageSendOf(t, outcome)

\* the bot: the CLI goroutine sends invitations while the event goroutine
\* handles inbound messages
Next ==
    \/ Tick
    \/ SendInvitation(CLI)
    \/ SendInvitationSend(CLI)
    \/ HandleMessage(EV)
    \/ HandleMessageUpdateRSVP(EV)
    \/ HandleMessageSend(EV)

Spec == Init /\ [][Next]_vars

-----------------------------------------------------------------------------
(* storage.Storage called directly: the methods step by step *)

\* the phone numbers of the records
Key1 == Normalized[<<"0","5","0","1","1","1","2","2","2","2">>]
Key2 == Normalized[<<"9","7","2","0","0","5","5">>]

\* call[t] for a call of AddGuest: the argument and the index the loop found
AddGuestArgs(guest) == [op |-> "AddGuest", guest |-> guest, i |-> 0]

\* call[t] for a call of UpdateRSVP
UpdateRSVPArgs(phoneNumber, status, notes) ==
    [op |-> "UpdateRSVP", phoneNumber |-> phoneNumber, status |-> status,
     notes |-> notes, i |-> 0]

\* goroutine t calls s.AddGuest(guest)
AddGuestCall(t, guest) ==
    /\ pc[t] = "idle"
    /\ Goto(t, AddGuestArgs(guest), "Lock")
    /\ UNCHANGED <<guests, file, mu, clock>>

\* goroutine t calls s.UpdateRSVP(phoneNumber, status, notes)
UpdateRSVPCall(t, phoneNumber, status, notes) ==
    /\ pc[t] = "idle"
    /\ Goto(t, UpdateRSVPArgs(phoneNumber, status, notes), "Lock")
    /\ UNCHANGED <<guests, file, mu, clock>>

\* s.mu.Lock() at the head of AddGuest and UpdateRSVP
Lock(t) ==
    /\ pc[t] = "Lock"
    /\ CanLock
    /\ mu' = [mu EXCEPT !.writer = t]
    /\ Goto(t, call[t], call[t].op)
    /\ UNCHANGED <<guests, file, clock>>

\* AddGuest: the loop over s.guests looks for the phone number
AddGuestLoop(t) ==
    /\ pc[t] = "AddGuest"
    /\ Goto(t, [call[t] EXCEPT !.i = IndexOf(guests, call[t].guest.PhoneNumber)],
            "AddGuest:write")
    /\ UNCHANGED <<guests, file, mu, clock>>

\* AddGuest: s.guests[i] = guest, or s.guests = append(s.guests, guest)
AddGuestWrite(t) ==
    /\ pc[t] = "AddGuest:write"
    /\ guests' = AddGuestAt(guests, call[t].i, call[t].guest, clock)
    /\ Goto(t, call[t], "Save")
    /\ UNCHANGED <<file, mu, clock>>

\* an UpdateRSVP that adds a record for a phone number it does not find
UpdateRSVPBodyCreating(t) ==
    LET i == IndexOf(guests, call[t].phoneNumber)
        added == Append(guests, Guest(call[t].phoneNumber, "", call[t].status,
                                      ZeroTime, clock, ""))
    IN /\ pc[t] = "UpdateRSVP"
       /\ guests' = IF i # 0 THEN SetRSVPStatus(guests, i, call[t].status)
                    ELSE added
       /\ Goto(t, [call[t] EXCEPT !.i = IF i # 0 THEN i ELSE Len(added)],
               "UpdateRSVP:87")
       /\ UNCHANGED <<file, mu, clock>>

\* UpdateRSVP: the loop, which writes the status to the record it finds; when
\* it finds none the call returns "guest not found" (the deferred Unlock runs)
UpdateRSVPBody(t) ==
    LET i == IndexOf(guests, call[t].phoneNumber)
    IN /\ pc[t] = "UpdateRSVP"
       /\ IF i # 0
          THEN /\ guests' = SetRSVPStatus(guests, i, call[t].status)
               /\ Goto(t, [call[t] EXCEPT !.i = i], "UpdateRSVP:87")
               /\ UNCHANGED <<file, mu, clock>>
          ELSE /\ Return(t, call[t], ErrNotFound, "UpdateRSVP:94", <<>>)
               /\ mu' = [mu EXCEPT !.writer = NoThread]
               /\ UNCHANGED <<guests, file, clock>>

\* UpdateRSVP: the RSVP date and the notes of the record found
UpdateRSVPDate(t) ==
    /\ pc[t] = "UpdateRSVP:87"
    /\ guests' = SetRSVPDate(guests, call[t].i, call[t].notes, clock)
    /\ Goto(t, call[t], "Save")
    /\ UNCHANGED <<file, mu, clock>>

\* a Save that empties the slice when the file cannot be written
SaveOfForgetting(t, outcome) ==
    /\ pc[t] = "Save"
    /\ file' = FileAfterSave(file, guests, outcome)
    /\ mu' = [mu EXCEPT !.writer = NoThread]
    /\ Return(t, call[t], IF outcome = "ok" THEN Nil ELSE ErrSave, "Save", <<>>)
    /\ guests' = IF outcome = "ok" THEN guests ELSE <<>>
    /\ UNCHANGED clock

\* a Save that takes the mutex itself, which its caller holds
SaveOfLocking(t, outcome) ==
    /\ pc[t] = "Save"
    /\ CanLock
    /\ file' = FileAfterSave(file, guests, outcome)
    /\ mu' = [mu EXCEPT !.writer = NoThread]
    /\ Return(t, call[t], IF outcome = "ok" THEN Nil ELSE ErrSave, "Save", <<>>)
    /\ UNCHANGED <<guests, clock>>

\* a Save that writes to the file only the record the call has written
SaveOfOneRecord(t, outcome) ==
    LET k == IF call[t].i = 0 THEN Len(guests) ELSE call[t].i
        old == IF file.kind = "json" THEN file.data ELSE <<>>
        new == IF k <= Len(old)
               THEN [old EXCEPT ![k] = MarshalGuest(guests[k])]
               ELSE Append(old, MarshalGuest(guests[k]))
    IN /\ pc[t] = "Save"
       /\ file' = IF outcome = "ok" THEN JSONFile(new)
                  ELSE FileAfterSave(file, guests, outcome)
       /\ mu' = [mu EXCEPT !.writer = NoThread]
       /\ Return(t, call[t], IF outcome = "ok" THEN Nil ELSE ErrSave, "Save",
                 <<>>)
       /\ UNCHANGED <<guests, clock>>

\* return s.Save(), which ends with outcome, and the deferred Unlock
SaveOf(t, outcome) ==
    /\ pc[t] = "Save"
    /\ file' = FileAfterSave(file, guests, outcome)
    /\ mu' = [mu EXCEPT !.writer = NoThread]
    /\ Return(t, call[t], IF outcome = "ok" THEN Nil ELSE ErrSave, "Save", <<>>)
    /\ UNCHANGED <<guests, clock>>

Save(t) == \E outcome \in SaveOutcomes : SaveOf(t, outcome)

\* a reader that hands out the slice's own records
Shared(gs, idx) ==
    [shared |-> TRUE, at |-> idx, guests |-> [k \in 1..Len(idx) |-> gs[idx[k]]]]

\* what a reader hands out: the records at the indices idx of the slice, as
\* values of their own (shared: the caller would hold the slice's own records)
Copied(gs, idx) ==
    [shared |-> FALSE, at |-> idx, guests |-> [k \in 1..Len(idx) |-> gs[idx[k]]]]

\* the indices of gs whose records have the status, in order
IndicesWithStatus(gs, status) ==
    SelectSeq([k \in 1..Len(gs) |-> k], LAMBDA k : gs[k].RSVPStatus = status)

\* GetGuest: &g, g being the loop's copy of the first record with the phone
\* number; nothing when there is none
GetGuestResult(gs, phoneNumber) ==
    Copied(gs, IF IndexOf(gs, phoneNumber) = 0 THEN <<>>
               ELSE <<IndexOf(gs, phoneNumber)>>)

\* GetAllGuests: copy(guests, s.guests)
GetAllGuestsResult(gs) == Copied(gs, [k \in 1..Len(gs) |-> k])

\* GetGuestsByStatus: the loop's copies of the records with the status
GetGuestsByStatusResult(gs, status) == Copied(gs, IndicesWithStatus(gs, status))

\* call[t] for a call of GetGuest, GetAllGuests or GetGuestsByStatus, and for
\* the caller that holds the result
ReadArgs(op, phoneNumber, status) ==
    [op |-> op, phoneNumber |-> phoneNumber, status |-> status,
     result |-> Copied(<<>>, <<>>), changed |-> FALSE]

\* goroutine t calls s.GetGuest(phoneNumber)
GetGuestCall(t, phoneNumber) ==
    /\ pc[t] = "idle"
    /\ Goto(t, ReadArgs("GetGuest", phoneNumber, NoStatus), "RLock")
    /\ UNCHANGED <<guests, file, mu, clock>>

\* goroutine t calls s.GetAllGuests()
GetAllGuestsCall(t) ==
    /\ pc[t] = "idle"
    /\ Goto(t, ReadArgs("GetAllGuests", <<>>, NoStatus), "RLock")
    /\ UNCHANGED <<guests, file, mu, clock>>

\* goroutine t calls s.GetGuestsByStatus(status)
GetGuestsByStatusCall(t, status) ==
    /\ pc[t] = "idle"
    /\ Goto(t, ReadArgs("GetGuestsByStatus", <<>>, status), "RLock")
    /\ UNCHANGED <<guests, file, mu, clock>>

\* s.mu.RLock() at the head of the three readers
RLock(t) ==
    /\ pc[t] = "RLock"
    /\ CanRLock
    /\ mu' = [mu EXCEPT !.readers = mu.readers \cup {t}]
    /\ Goto(t, call[t], call[t].op)
    /\ UNCHANGED <<guests, file, clock>>

\* the reader t is in returns result (the deferred RUnlock runs): the caller
\* holds it
ReadReturns(t, result, err) ==
    LET c == [call[t] EXCEPT !.result = result]
    IN /\ pc' = [pc EXCEPT ![t] = "caller"]
       /\ call' = [call EXCEPT ![t] = c]
       /\ ret' = [thread |-> t, call |-> c, err |-> err, at |-> c.op,
                  sends |-> <<>>]
       /\ mu' = [mu EXCEPT !.readers = mu.readers \ {t}]
       /\ UNCHANGED <<guests, file, clock>>

\* GetGuest: the loop and the return
GetGuestBody(t) ==
    /\ pc[t] = "GetGuest"
    /\ ReadReturns(t, GetGuestResult(guests, call[t].phoneNumber),
                   IF IndexOf(guests, call[t].phoneNumber) = 0
                   THEN ErrNotFound ELSE Nil)

\* GetAllGuests: make, copy and the return
GetAllGuestsBody(t) ==
    /\ pc[t] = "GetAllGuests"
    /\ ReadReturns(t, GetAllGuestsResult(guests), Nil)

\* GetGuestsByStatus: the loop and the return
GetGuestsByStatusBody(t) ==
    /\ pc[t] = "GetGuestsByStatus"
    /\ ReadReturns(t, GetGuestsByStatusResult(guests, call[t].status), Nil)

\* the first record of rs with another name and another status
Scribbled(rs) ==
    [rs EXCEPT ![1] = [rs[1] EXCEPT !.Name = "changed",
                                    !.RSVPStatus = RSVPNotInvited]]

\* the caller of a reader writes to the first record it was handed; the write
\* reaches the slice only if the record is the slice's own
CallerWrites(t) ==
    /\ pc[t] = "caller"
    /\ ~call[t].changed
    /\ call[t].result.guests # <<>>
    /\ call' = [call EXCEPT ![t].result.guests = Scribbled(@),
                            ![t].changed = TRUE]
    /\ guests' = IF call[t].result.shared
                 THEN [guests EXCEPT ![call[t].result.at[1]] =
                          Scribbled(call[t].result.guests)[1]]
                 ELSE guests
    /\ ret' = NoResult
    /\ UNCHANGED <<file, mu, clock, pc>>

\* the caller of a reader is done with what it was handed
CallerDone(t) ==
    /\ pc[t] = "caller"
    /\ Goto(t, NoCall, "idle")
    /\ UNCHANGED <<guests, file, mu, clock>>

\* a read in progress, or its caller, goes on
ReaderStep(t) ==
    \/ RLock(t)
    \/ GetGuestBody(t)
    \/ GetAllGuestsBody(t)
    \/ GetGuestsByStatusBody(t)
    \/ CallerWrites(t)
    \/ CallerDone(t)

\* a call in progress goes on
StorageStep(t) ==
    \/ Lock(t)
    \/ AddGuestLoop(t)
    \/ AddGuestWrite(t)
    \/ UpdateRSVPBody(t)
    \/ UpdateRSVPDate(t)
    \/ Save(t)

\* the guests one caller hands to AddGuest: nothing but phone number and name;
\* another name, the status of somebody not invited yet, and a date; a second
\* number with an answer and its dates
StoreGuests ==
    { Guest(Key1, "Dana", NoStatus, ZeroTime, ZeroTime, ""),
      Guest(Key1, "Dan", RSVPNotInvited, ZeroTime, 1, ""),
      Guest(Key2, "Dana", RSVPAccepted, 1, 1, "") }

\* the arguments one caller hands to UpdateRSVP
StoreUpdates ==
    { UpdateRSVPArgs(Key1, RSVPAccepted, ""),
      UpdateRSVPArgs(Key1, RSVPDeclined, "late") }

\* one goroutine uses the store
StoreNext ==
    \/ Tick
    \/ \E guest \in StoreGuests : AddGuestCall(CLI, guest)
    \/ \E u \in StoreUpdates :
          UpdateRSVPCall(CLI, u.phoneNumber, u.status, u.notes)
    \/ StorageStep(CLI)
    \/ \E phoneNumber \in {Key1, Key2} : GetGuestCall(CLI, phoneNumber)
    \/ GetAllGuestsCall(CLI)
    \/ \E status \in {RSVPPending, RSVPAccepted} :
          GetGuestsByStatusCall(CLI, status)
    \/ ReaderStep(CLI)

StoreSpec == Init /\ [][StoreNext]_vars

\* what two goroutines hand to AddGuest and UpdateRSVP at the same time
LockGuests ==
    { Guest(Key1, "Dana", RSVPPending, ZeroTime, ZeroTime, ""),
      Guest(Key2, "Dan", RSVPPending, ZeroTime, ZeroTime, "") }

LockUpdates == { UpdateRSVPArgs(Key1, RSVPAccepted, "") }

\* two goroutines use the store
LockNext ==
    \E t \in Threads :
       \/ \E guest \in LockGuests : AddGuestCall(t, guest)
       \/ \E u \in LockUpdates :
             UpdateRSVPCall(t, u.phoneNumber, u.status, u.notes)
       \/ StorageStep(t)
       \/ GetGuestCall(t, Key1)
       \/ GetAllGuestsCall(t)
       \/ GetGuestsByStatusCall(t, RSVPAccepted)
       \/ ReaderStep(t)

LockSpec == Init /\ [][LockNext]_vars

\* a goroutine that holds the mutex, for writing or for reading, goes on
Inside(t) ==
    \/ AddGuestLoop(t)
    \/ AddGuestWrite(t)
    \/ UpdateRSVPBody(t)
    \/ UpdateRSVPDate(t)
    \/ Save(t)
    \/ GetGuestBody(t)
    \/ GetAllGuestsBody(t)
    \/ GetGuestsByStatusBody(t)

\* the scheduler runs every goroutine that can run; sync.Mutex hands the
\* mutex to a goroutine that has waited (starvation mode) and sync.RWMutex
\* lets no reader in past a waiting writer, so a goroutine that can take the
\* mutex again and again does take it
LockFairness ==
    \A t \in Threads :
       /\ WF_vars(Inside(t))
       /\ SF_vars(Lock(t))
       /\ SF_vars(RLock(t))

LockFairSpec == LockSpec /\ LockFairness

-----------------------------------------------------------------------------
(* storage.NewStorage: the program is started again on the file it left *)

\* call[t] and ret.call for NewStorage
NewStorageArgs == [op |-> "NewStorage"]

\* main: storage.NewStorage(storagePath).  os.Stat finds no file and the
\* store starts empty, or Load fills the slice from the file; when Load fails
\* there is no store and main exits
NewStorage(t) ==
    LET loaded == IF file.kind = "missing" THEN [guests |-> <<>>, err |-> Nil]
                  ELSE Load(file)
    IN /\ \A u \in Threads : pc[u] = "idle"
       /\ guests' = loaded.guests
       /\ Return(t, NewStorageArgs, loaded.err,
                 IF loaded.err = Nil THEN "NewStorage:34" ELSE "NewStorage:30",
                 <<>>)
       /\ UNCHANGED <<file, mu, clock>>

\* one goroutine uses the store, and the program is stopped and started
LoadNext ==
    \/ Tick
    \/ \E guest \in StoreGuests : AddGuestCall(CLI, guest)
    \/ \E u \in StoreUpdates :
          UpdateRSVPCall(CLI, u.phoneNumber, u.status, u.notes)
    \/ StorageStep(CLI)
    \/ NewStorage(CLI)

LoadSpec == Init /\ [][LoadNext]_vars

-----------------------------------------------------------------------------
(* the classification of a text, by itself *)

UpperChar(c) ==
    IF \E i \in 1..26 : LowerCase[i] = c
    THEN UpperCase[CHOOSE i \in 1..26 : LowerCase[i] = c]
    ELSE c

\* the text in capitals
ToUpper(s) == [i \in 1..Len(s) |-> UpperChar(s[i])]

\* what the texts are made of: the keywords, a word that is none, and nothing
Words == AcceptKeywords \cup DeclineKeywords \cup {<<"m","a","y","b","e">>, <<>>}

\* two words with a space between them, as typed, in capitals, and with a
\* space before them
TwoWords == {w1 \o <<" ">> \o w2 : w1 \in Words, w2 \in Words}
Typed == TwoWords \cup {ToUpper(text) : text \in TwoWords}
ClassifyTexts == Typed \cup {<<" ">> \o text : text \in Typed}

\* call[t] for the classification of a text
ClassifyArgs(text, newStatus) ==
    [op |-> "classify", text |-> text, newStatus |-> newStatus]

\* a text arrives
ClassifyInit ==
    /\ guests = <<>>
    /\ file = NoFile
    /\ mu = [writer |-> NoThread, readers |-> {}]
    /\ clock = 1
    /\ pc = [t \in Threads |-> "idle"]
    /\ \E text \in ClassifyTexts :
          call = [t \in Threads |-> IF t = EV THEN ClassifyArgs(text, NoStatus)
                                    ELSE NoCall]
    /\ ret = NoResult

\* HandleMessage: from text = strings.ToLower(strings.TrimSpace(text)) to the
\* end of the if-else chain that sets newStatus
Classify(t) ==
    /\ pc[t] = "idle"
    /\ call[t].op = "classify"
    /\ Goto(t, ClassifyArgs(call[t].text, NewStatus(call[t].text)),
            "classified")
    /\ UNCHANGED <<guests, file, mu, clock>>

ClassifySpec == ClassifyInit /\ [][Classify(EV)]_vars

-----------------------------------------------------------------------------
(* the normalisation of a phone number, by itself and over again *)

\* how a typed number begins
NumberStarts == {
    <<>>, <<"0">>, <<"0","0">>, <<"0","0","0">>, <<"+">>,
    <<"9","7","2">>, <<"+","9","7","2">>, <<"9","7","2","0">>,
    <<"+","9","7","2","0">>, <<"9","7","2","0","0">>,
    <<"(","0",")">>, <<"(","0",")","0">>
}

\* how it goes on
NumberEnds == {
    <<"5","0","1","1","1","2","2","2","2">>,
    <<"5","0","-","1","1","1"," ","2","2","2","2">>,
    <<"1","2","3","4","5","6","7","8">>,
    <<"1","2","3","4","5","6","7">>,
    <<"5","5">>,
    <<"0","5","5">>
}

NormalizeInputs == {start \o end : start \in NumberStarts, end \in NumberEnds}

\* call[t] for a number normalised by SendInvitation and again by the service
NormalizeArgs(phoneNumber, once, twice) ==
    [op |-> "normalize", phoneNumber |-> phoneNumber, once |-> once,
     twice |-> twice]

\* a number is typed
NormalizeInit ==
    /\ guests = <<>>
    /\ file = NoFile
    /\ mu = [writer |-> NoThread, readers |-> {}]
    /\ clock = 1
    /\ pc = [t \in Threads |-> "idle"]
    /\ \E phoneNumber \in NormalizeInputs :
          call = [t \in Threads |->
                    IF t = CLI THEN NormalizeArgs(phoneNumber, <<>>, <<>>)
                    ELSE NoCall]
    /\ ret = NoResult

\* SendInvitation: normalizedNumber := whatsapp.NormalizePhoneNumber(phoneNumber)
Normalize(t) ==
    /\ pc[t] = "idle"
    /\ call[t].op = "normalize"
    /\ Goto(t, NormalizeArgs(call[t].phoneNumber,
                             NormalizePhoneNumber(call[t].phoneNumber), <<>>),
            "normalized")
    /\ UNCHANGED <<guests, file, mu, clock>>

\* Service.SendInvitation, Service.SendMessage:
\* phoneNumber = NormalizePhoneNumber(phoneNumber) on the normalised number
NormalizeAgain(t) ==
    /\ pc[t] = "normalized"
    /\ call[t].op = "normalize"
    /\ Goto(t, NormalizeArgs(call[t].phoneNumber, call[t].once,
                             NormalizePhoneNumber(call[t].once)),
            "normalized again")
    /\ UNCHANGED <<guests, file, mu, clock>>

NormalizeNext ==
    \/ Normalize(CLI)
    \/ NormalizeAgain(CLI)

NormalizeSpec == NormalizeInit /\ [][NormalizeNext]_vars

-----------------------------------------------------------------------------
(* Properties of the handler: what they are stated with *)

\* a guest who has answered
Responded == {RSVPAccepted, RSVPDeclined}

HasRecord(gs, phoneNumber) ==
    \E i \in 1..Len(gs) : gs[i].PhoneNumber = phoneNumber

\* the record with this phone number, for a number that has one
RecordOf(gs, phoneNumber) ==
    gs[CHOOSE i \in 1..Len(gs) : gs[i].PhoneNumber = phoneNumber]

\* the file holds the record g at index i
InFile(i, g) ==
    file.kind = "json" /\ i <= Len(file.data) /\ file.data[i] = MarshalGuest(g)

\* the file holds the slice gs
FileHolds(gs) ==
    /\ file.kind = "json"
    /\ Len(file.data) = Len(gs)
    /\ \A i \in 1..Len(gs) : file.data[i] = MarshalGuest(gs[i])

\* the texts by the keyword lists they match, acceptance first
AcceptTexts ==
    {text \in Texts : containsAny(ToLower(TrimSpace(text)), AcceptKeywords)}
DeclineTexts ==
    {text \in Texts \ AcceptTexts :
        containsAny(ToLower(TrimSpace(text)), DeclineKeywords)}
UnrecognizedTexts == Texts \ (AcceptTexts \cup DeclineTexts)

\* the step is the return of t's call
Returns(t) == pc[t] # "idle" /\ pc'[t] = "idle"

-----------------------------------------------------------------------------
(* C1 *)

\* C1, as stated: a record's status changes only from pending to accepted or
\* from pending to declined.
C1_OnlyFromPending ==
    [][\A i \in 1..Len(guests) :
          guests'[i].RSVPStatus # guests[i].RSVPStatus =>
             /\ guests[i].RSVPStatus = RSVPPending
             /\ guests'[i].RSVPStatus \in Responded]_vars

\* C1, as the code has it: a record's status changes only when HandleMessage's
\* UpdateRSVP writes the status an accepting or declining text asks for to the
\* sender's record, whatever the status was (pending, accepted or declined),
\* or when SendInvitation invites again a number whose record is accepted or
\* declined, which becomes pending.
C1_StatusChanges ==
    [][\A i \in 1..Len(guests) :
          guests'[i].RSVPStatus # guests[i].RSVPStatus =>
             \/ /\ pc[EV] = "UpdateRSVP"
                /\ pc'[EV] # "UpdateRSVP"
                /\ guests[i].PhoneNumber = call[EV].phoneNumber
                /\ call[EV].newStatus \in Responded
                /\ guests'[i].RSVPStatus = call[EV].newStatus
             \/ /\ pc[CLI] = "idle"
                /\ pc'[CLI] = "SendInvitation" \/ ret'.at = "SendInvitation:114"
                /\ guests[i].RSVPStatus \in Responded
                /\ guests'[i].RSVPStatus = RSVPPending]_vars

\* a guest who had accepted declines, and the save of the refusal fails: the
\* record is declined in memory while the file still has the acceptance
C1_Witness ==
    /\ ret.at = "HandleMessage:90"
    /\ ret.call.newStatus = RSVPDeclined
    /\ \E i \in 1..Len(guests) :
          /\ guests[i].PhoneNumber = ret.call.phoneNumber
          /\ guests[i].RSVPStatus = RSVPDeclined
          /\ InFile(i, [guests[i] EXCEPT !.RSVPStatus = RSVPAccepted])

-----------------------------------------------------------------------------
(* C2 *)

\* C2, as stated: SendInvitation leaves the status of a record that is
\* accepted or declined as it is.
C2_KeepsResponse ==
    [][SendInvitation(CLI) =>
          \A i \in 1..Len(guests) :
             guests[i].RSVPStatus \in Responded =>
                guests'[i].RSVPStatus = guests[i].RSVPStatus]_vars

\* C2, as the code has it: after SendInvitation's AddGuest the record of the
\* invited number is pending with no RSVP date, whatever it was before
\* (accepted and declined included), and every other record is as it was.
C2_AlwaysPending ==
    [][\A phoneNumber \in RawPhones, name \in Names, outcome \in SaveOutcomes :
          SendInvitationOf(CLI, phoneNumber, name, outcome) =>
             /\ HasRecord(guests', Normalized[phoneNumber])
             /\ \A i \in 1..Len(guests') :
                   IF guests'[i].PhoneNumber = Normalized[phoneNumber]
                   THEN /\ guests'[i].RSVPStatus = RSVPPending
                        /\ guests'[i].RSVPDate = ZeroTime
                   ELSE guests'[i] = guests[i]]_vars

\* a guest who had accepted is invited again and the save fails: the record
\* is pending in memory while the file still has the acceptance
C2_Witness ==
    /\ ret.at = "SendInvitation:114"
    /\ \E i \in 1..Len(guests) :
          /\ guests[i].PhoneNumber = Normalized[ret.call.phoneNumber]
          /\ guests[i].RSVPStatus = RSVPPending
          /\ file.kind = "json"
          /\ i <= Len(file.data)
          /\ file.data[i].rsvp_status = RSVPAccepted

-----------------------------------------------------------------------------
(* C3 *)

\* C3, as stated: AddGuest with an empty status or with the status
\* not_invited, for a phone number that has a record, leaves the status of the
\* record as it was.
C3_BlankKeepsStatus ==
    [][(/\ pc[CLI] = "AddGuest:write"
        /\ pc'[CLI] = "Save"
        /\ call[CLI].i # 0
        /\ call[CLI].guest.RSVPStatus \in {NoStatus, RSVPNotInvited}) =>
          guests'[call[CLI].i].RSVPStatus = guests[call[CLI].i].RSVPStatus]_vars

-----------------------------------------------------------------------------
(* C4 *)

\* C4: whatever calls of AddGuest and UpdateRSVP two goroutines make at the
\* same time on a store that was empty, no two records of the slice have the
\* same phone number.
C4_UniquePhoneNumbers ==
    \A i, j \in 1..Len(guests) :
        guests[i].PhoneNumber = guests[j].PhoneNumber => i = j

\* two goroutines are in AddGuest with the same new phone number: one has
\* appended the record and is about to save, the other waits for the mutex
C4_Witness ==
    /\ pc[CLI] = "Save"
    /\ pc[EV] = "Lock"
    /\ call[CLI].op = "AddGuest"
    /\ call[EV].op = "AddGuest"
    /\ call[CLI].i = 0
    /\ call[EV].guest.PhoneNumber = call[CLI].guest.PhoneNumber
    /\ Len(guests) = 1
    /\ guests[1].PhoneNumber = call[EV].guest.PhoneNumber

-----------------------------------------------------------------------------
(* C5 *)

\* C5: no step of AddGuest or UpdateRSVP, whatever name and invitation date
\* are handed in, moves a record or changes its phone number or its
\* invitation date: the date a record was created with stays.
C5_InvitedDateKept ==
    [][\A i \in 1..Len(guests) :
          /\ i <= Len(guests')
          /\ guests'[i].PhoneNumber = guests[i].PhoneNumber
          /\ guests'[i].InvitedDate = guests[i].InvitedDate]_vars

\* AddGuest has replaced a record by a guest with another invitation date:
\* the record has the new name and the date it was created with
C5_Witness ==
    /\ ret.at = "Save"
    /\ ret.call.op = "AddGuest"
    /\ ret.call.i # 0
    /\ ret.call.guest.InvitedDate # ZeroTime
    /\ guests[ret.call.i].InvitedDate # ret.call.guest.InvitedDate
    /\ guests[ret.call.i].Name = ret.call.guest.Name
    /\ FileHolds(guests)

-----------------------------------------------------------------------------
(* C6 *)

\* C6: a message from a sender whose phone number has no record changes
\* neither the slice nor the file, attempts no send and returns nil, whatever
\* its text.
C6_UnknownSenderNoOp ==
    [][\A msg \in InboundMessages :
          (/\ ~HasRecord(guests, PhoneNumberOf[msg.sender])
           /\ HandleMessageOf(EV, msg)) =>
             /\ guests' = guests
             /\ file' = file
             /\ pc'[EV] = "idle"
             /\ ret'.thread = EV
             /\ ret'.err = Nil
             /\ ret'.sends = <<>>]_vars

\* with guests on the list, somebody who is not on it writes an acceptance
C6_Witness ==
    /\ ret.at = "HandleMessage:59"
    /\ ret.call.phoneNumber = PhoneNumberOf[Stranger]
    /\ \E i \in 1..Len(guests) : guests[i].RSVPStatus = RSVPPending
    /\ FileHolds(guests)

-----------------------------------------------------------------------------
(* C7 *)

\* C7: a message from a guest with a record whose text matches neither keyword
\* list changes no status and no RSVP date, writes no file and sends no reply.
C7_UnrecognizedNoOp ==
    [][\A msg \in InboundMessages :
          (/\ ~msg.isNil
           /\ msg.text \in UnrecognizedTexts
           /\ HasRecord(guests, PhoneNumberOf[msg.sender])
           /\ HandleMessageOf(EV, msg)) =>
             /\ guests' = guests
             /\ file' = file
             /\ pc'[EV] = "idle"
             /\ ret'.thread = EV
             /\ ret'.err = Nil
             /\ ret'.sends = <<>>]_vars

\* a pending guest writes "maybe"
C7_Witness ==
    /\ ret.at = "HandleMessage:85"
    /\ HasRecord(guests, ret.call.phoneNumber)
    /\ RecordOf(guests, ret.call.phoneNumber).RSVPStatus = RSVPPending
    /\ RecordOf(guests, ret.call.phoneNumber).RSVPDate = ZeroTime

-----------------------------------------------------------------------------
(* C8 *)

\* C8, as stated: every call of HandleMessage that gets as far as UpdateRSVP
\* (an accepting or declining text from a guest with a record) ends having
\* made exactly one confirmation send, to the guest's phone number.
C8_ConfirmsEveryReply ==
    [][(pc[EV] \in {"UpdateRSVP", "SendMessage"} /\ Returns(EV)) =>
          ret'.sends = <<[to |-> ret'.call.phoneNumber,
                          message |-> ResponseMessage(ret'.call.newStatus)]>>]_vars

\* C8, as the code has it: an accepting (declining) text from the phone number
\* of a record makes HandleMessage call UpdateRSVP, which sets the record's
\* status to accepted (declined) and its RSVP date to the current time in
\* memory.  When the save succeeds the file holds the slice and exactly one
\* confirmation send follows, to NormalizePhoneNumber of the record's phone
\* number, which is another number when the record's begins with 9720.  When
\* the save fails HandleMessage returns an error and sends nothing.
C8_ReplyRecorded ==
    [][/\ \A msg \in InboundMessages :
             (/\ ~msg.isNil
              /\ msg.text \in AcceptTexts \cup DeclineTexts
              /\ HasRecord(guests, PhoneNumberOf[msg.sender])
              /\ HandleMessageOf(EV, msg)) =>
                /\ pc'[EV] = "UpdateRSVP"
                /\ call'[EV].phoneNumber = PhoneNumberOf[msg.sender]
                /\ call'[EV].newStatus = IF msg.text \in AcceptTexts
                                         THEN RSVPAccepted ELSE RSVPDeclined
       /\ \A outcome \in SaveOutcomes :
             HandleMessageUpdateRSVPOf(EV, outcome) =>
                /\ HasRecord(guests', call[EV].phoneNumber)
                /\ RecordOf(guests', call[EV].phoneNumber).RSVPStatus
                      = call[EV].newStatus
                /\ RecordOf(guests', call[EV].phoneNumber).RSVPDate = clock
                /\ IF outcome = "ok"
                   THEN /\ pc'[EV] = "SendMessage"
                        /\ file' = JSONFile(Marshal(guests'))
                   ELSE /\ Returns(EV)
                        /\ ret'.err = ErrUpdateRSVP
                        /\ ret'.sends = <<>>
       /\ \A outcome \in SendOutcomes :
             HandleMessageSendOf(EV, outcome) =>
                /\ Returns(EV)
                /\ ret'.sends =
                      <<[to |-> NormalizePhoneNumber(call[EV].phoneNumber),
                         message |-> ResponseMessage(call[EV].newStatus)]>>]_vars

\* the guest invited as 9720055, whose record has 972055, accepts: the
\* confirmation goes to 97255
C8_Witness ==
    /\ ret.at = "HandleMessage:98"
    /\ ret.call.phoneNumber = PhoneNumberOf[Sender2]
    /\ Len(ret.sends) = 1
    /\ ret.sends[1].to # ret.call.phoneNumber
    /\ HasRecord(guests, ret.call.phoneNumber)
    /\ RecordOf(guests, ret.call.phoneNumber).RSVPStatus = RSVPAccepted

-----------------------------------------------------------------------------
(* C9 *)

\* C9: when UpdateRSVP has succeeded the new status and the RSVP date are in
\* memory and in the file, and a confirmation send that fails afterwards makes
\* HandleMessage return an error with the slice and the file as they were.
C9_NoRollback ==
    [][/\ (pc[EV] = "UpdateRSVP" /\ pc'[EV] = "SendMessage") =>
             /\ RecordOf(guests', call[EV].phoneNumber).RSVPStatus
                   = call[EV].newStatus
             /\ RecordOf(guests', call[EV].phoneNumber).RSVPDate = clock
             /\ file' = JSONFile(Marshal(guests'))
       /\ \A outcome \in SendOutcomes \ {"sent"} :
             HandleMessageSendOf(EV, outcome) =>
                /\ ret'.thread = EV
                /\ ret'.err = ErrSendConfirmation
                /\ guests' = guests
                /\ file' = file]_vars

\* the confirmation of a refusal could not be sent: the record is declined,
\* with its RSVP date, in memory and in the file
C9_Witness ==
    /\ ret.err = ErrSendConfirmation
    /\ ret.call.newStatus = RSVPDeclined
    /\ \E i \in 1..Len(guests) :
          /\ guests[i].PhoneNumber = ret.call.phoneNumber
          /\ guests[i].RSVPStatus = RSVPDeclined
          /\ guests[i].RSVPDate # ZeroTime
          /\ InFile(i, guests[i])

-----------------------------------------------------------------------------
(* C10 *)

\* C10: when the send of the invitation fails (the number cannot be verified,
\* is not on WhatsApp, or the send itself fails) SendInvitation returns an
\* error, the slice and the file are as AddGuest left them, and the guest has
\* a record.
C10_InvitationKept ==
    [][\A outcome \in SendOutcomes \ {"sent"} :
          SendInvitationSendOf(CLI, outcome) =>
             /\ ret'.thread = CLI
             /\ ret'.err = ErrSendInvitation
             /\ guests' = guests
             /\ file' = file
             /\ HasRecord(guests', Normalized[call[CLI].phoneNumber])]_vars

\* the invitation of a new guest could not be sent: the guest is on the list,
\* pending, in memory and in the file
C10_Witness ==
    /\ ret.err = ErrSendInvitation
    /\ Len(guests) = 1
    /\ guests[1].PhoneNumber = Normalized[ret.call.phoneNumber]
    /\ guests[1].RSVPStatus = RSVPPending
    /\ InFile(1, guests[1])

-----------------------------------------------------------------------------
(* C11 *)

\* the step is the return of the reader t is in
ReaderReturns(t) ==
    /\ pc[t] \in {"GetGuest", "GetAllGuests", "GetGuestsByStatus"}
    /\ pc'[t] = "caller"

\* what a reader called with the arguments c has to hand out from the slice gs
Expected(gs, c) ==
    CASE c.op = "GetGuest" ->
            IF HasRecord(gs, c.phoneNumber)
            THEN <<RecordOf(gs, c.phoneNumber)>> ELSE <<>>
      [] c.op = "GetAllGuests" -> gs
      [] c.op = "GetGuestsByStatus" ->
            SelectSeq(gs, LAMBDA g : g.RSVPStatus = c.status)

\* C11: when Save fails at the end of AddGuest or UpdateRSVP the call returns
\* an error and the slice keeps what the call wrote (the guest handed to
\* AddGuest, the status and the notes handed to UpdateRSVP); GetGuest,
\* GetAllGuests and GetGuestsByStatus hand out what the slice holds at the
\* time, so every later read sees the record as written.
C11_AppliedInMemory ==
    [][/\ \A outcome \in SaveOutcomes \ {"ok"} :
             SaveOf(CLI, outcome) =>
                /\ ret'.thread = CLI
                /\ ret'.err = ErrSave
                /\ guests' = guests
                /\ IF call[CLI].op = "AddGuest"
                   THEN /\ HasRecord(guests', call[CLI].guest.PhoneNumber)
                        /\ RecordOf(guests', call[CLI].guest.PhoneNumber).Name
                              = call[CLI].guest.Name
                   ELSE /\ HasRecord(guests', call[CLI].phoneNumber)
                        /\ RecordOf(guests', call[CLI].phoneNumber).RSVPStatus
                              = call[CLI].status
                        /\ RecordOf(guests', call[CLI].phoneNumber).RSVPDate
                              # ZeroTime
                        /\ call[CLI].notes # "" =>
                              RecordOf(guests', call[CLI].phoneNumber).Notes
                                 = call[CLI].notes
       /\ ReaderReturns(CLI) =>
             ret'.call.result.guests = Expected(guests, call[CLI])]_vars

\* the save of a refusal failed, and a later GetGuest returns the declined
\* record, which the file does not have
C11_Witness ==
    /\ ret.at = "GetGuest"
    /\ ret.err = Nil
    /\ ret.call.result.guests[1].RSVPStatus = RSVPDeclined
    /\ ret.call.result.guests[1].Notes = "late"
    /\ file.kind = "json"
    /\ ret.call.result.at[1] <= Len(file.data)
    /\ file.data[ret.call.result.at[1]].rsvp_status # RSVPDeclined

-----------------------------------------------------------------------------
(* C12 *)

\* C12: UpdateRSVP for a phone number that has no record returns "guest not
\* found" from the loop's end, with the slice and the file as they were and
\* without reaching Save.
C12_NotFoundNoMutation ==
    [][(/\ pc[CLI] = "UpdateRSVP"
        /\ pc'[CLI] # "UpdateRSVP"
        /\ ~HasRecord(guests, call[CLI].phoneNumber)) =>
          /\ pc'[CLI] = "idle"
          /\ ret'.thread = CLI
          /\ ret'.err = ErrNotFound
          /\ guests' = guests
          /\ file' = file]_vars

\* UpdateRSVP did not find the first number in a store that has a record for
\* the second
C12_Witness ==
    /\ ret.at = "UpdateRSVP:94"
    /\ ret.err = ErrNotFound
    /\ ret.call.phoneNumber = Key1
    /\ Len(guests) = 1
    /\ guests[1].PhoneNumber = Key2
    /\ FileHolds(guests)

-----------------------------------------------------------------------------
(* C13 *)

\* C13: AddGuest for a phone number that has no record appends exactly one
\* record to the slice, the guest handed in, with the status pending when the
\* guest has none and with the current time as invitation date when the guest
\* has none.
C13_NewGuestDefaults ==
    [][(/\ pc[CLI] = "AddGuest:write"
        /\ pc'[CLI] = "Save"
        /\ ~HasRecord(guests, call[CLI].guest.PhoneNumber)) =>
          LET guest == call[CLI].guest
              added == guests'[Len(guests')]
          IN /\ Len(guests') = Len(guests) + 1
             /\ SubSeq(guests', 1, Len(guests)) = guests
             /\ added.PhoneNumber = guest.PhoneNumber
             /\ added.Name = guest.Name
             /\ added.RSVPStatus = IF guest.RSVPStatus = NoStatus
                                   THEN RSVPPending ELSE guest.RSVPStatus
             /\ added.InvitedDate = IF guest.InvitedDate = ZeroTime
                                    THEN clock ELSE guest.InvitedDate]_vars

\* a guest with neither status nor invitation date was added as the second
\* record, at the latest time: it is pending and invited then
C13_Witness ==
    /\ ret.at = "Save"
    /\ ret.call.op = "AddGuest"
    /\ ret.call.i = 0
    /\ ret.call.guest.RSVPStatus = NoStatus
    /\ ret.call.guest.InvitedDate = ZeroTime
    /\ Len(guests) = 2
    /\ guests[2].PhoneNumber = ret.call.guest.PhoneNumber
    /\ guests[2].RSVPStatus = RSVPPending
    /\ guests[2].InvitedDate = MaxClock
    /\ guests[1].RSVPStatus = RSVPAccepted

-----------------------------------------------------------------------------
(* C14 *)

\* t is between Lock and Unlock of AddGuest or UpdateRSVP
InWriter(t) ==
    pc[t] \in {"AddGuest", "AddGuest:write", "UpdateRSVP", "UpdateRSVP:87",
               "Save"}

\* t is between RLock and RUnlock of a reader
InReader(t) == pc[t] \in {"GetGuest", "GetAllGuests", "GetGuestsByStatus"}

\* C14: with two goroutines calling the store at the same time, while one is
\* inside AddGuest or UpdateRSVP the other is inside no method of the store;
\* so a reader returns while no writer is at work, it hands out what the
\* slice holds then, and no record it hands out is half updated (accepted by
\* UpdateRSVP but without the RSVP date).
C14_ReadersSeeSnapshots ==
    /\ [](\A t \in Threads : \A u \in Threads \ {t} :
             InWriter(t) => ~InWriter(u) /\ ~InReader(u))
    /\ [][\A t \in Threads :
             ReaderReturns(t) =>
                /\ \A u \in Threads : ~InWriter(u)
                /\ ret'.call.result.guests = Expected(guests, call[t])
                /\ \A k \in 1..Len(ret'.call.result.guests) :
                      ret'.call.result.guests[k].RSVPStatus = RSVPAccepted =>
                         ret'.call.result.guests[k].RSVPDate # ZeroTime]_vars

\* UpdateRSVP has written the status and not yet the date, and the other
\* goroutine, which called GetGuest for the same number, waits for the mutex
C14_Witness ==
    /\ pc[CLI] = "UpdateRSVP:87"
    /\ pc[EV] = "RLock"
    /\ call[EV].op = "GetGuest"
    /\ call[EV].phoneNumber = call[CLI].phoneNumber
    /\ guests[call[CLI].i].RSVPStatus = RSVPAccepted
    /\ guests[call[CLI].i].RSVPDate = ZeroTime

-----------------------------------------------------------------------------
(* C15 *)

\* the sender ids without the server, and what NormalizePhoneNumber makes of
\* them
UserOf == [sender \in Senders |-> BeforeFirst(sender, "@")]
CanonicalOf == [sender \in Senders |-> NormalizePhoneNumber(UserOf[sender])]

\* the phone number HandleMessage works with after a step from idle
KeyUsed == IF pc'[EV] = "idle" THEN ret'.call.phoneNumber
           ELSE call'[EV].phoneNumber

\* C15, as stated: the phone number HandleMessage looks up is
\* NormalizePhoneNumber of the sender id without its server, and a message
\* whose sender normalises to the phone number of a record is not ignored.
C15_KeyIsCanonical ==
    [][\A msg \in InboundMessages :
          (/\ ~msg.isNil
           /\ msg.text # NoText
           /\ HandleMessageOf(EV, msg)) =>
             /\ KeyUsed = CanonicalOf[msg.sender]
             /\ HasRecord(guests, CanonicalOf[msg.sender]) =>
                   ret'.at # "HandleMessage:59"]_vars

\* C15, as the code has it: the phone number HandleMessage looks up and
\* updates is the sender id up to the first "@" with "+" and " " removed,
\* nothing else; the message is ignored as from an unknown sender exactly when
\* no record has that phone number.  (That number is NormalizePhoneNumber's
\* only for sender ids without "-", "(", ")" that neither are ten characters
\* beginning with 0 nor begin with 9720.)
C15_KeyIsStripped ==
    [][\A msg \in InboundMessages :
          (/\ ~msg.isNil
           /\ msg.text # NoText
           /\ HandleMessageOf(EV, msg)) =>
             /\ KeyUsed = SelectSeq(UserOf[msg.sender],
                                    LAMBDA c : c # "+" /\ c # " ")
             /\ ret'.at = "HandleMessage:59" <=>
                   ~HasRecord(guests, KeyUsed)]_vars

\* the guest invited as 0501112222 has the record 972501112222; a message
\* from the sender id 0501112222 is ignored
C15_Witness ==
    /\ ret.at = "HandleMessage:59"
    /\ ret.call.phoneNumber = UserOf[Sender3]
    /\ ret.call.phoneNumber # CanonicalOf[Sender3]
    /\ HasRecord(guests, CanonicalOf[Sender3])

-----------------------------------------------------------------------------
(* C16 *)

\* the keyword occurs in the text
Occurs(keyword, text) ==
    \E i \in 1..Len(text) :
       /\ i + Len(keyword) - 1 <= Len(text)
       /\ \A j \in 1..Len(keyword) : text[i + j - 1] = keyword[j]

\* the text, lower-cased and trimmed, has a keyword of the set
HasKeyword(text, keywords) ==
    \E keyword \in keywords : Occurs(keyword, ToLower(TrimSpace(text)))

\* C16: a text with an accepting keyword and no declining keyword is
\* classified accepted, a text with a declining keyword and no accepting one
\* declined, and a text with neither is no RSVP; keywords are looked for as
\* substrings of the lower-cased, trimmed text.
C16_Classifies ==
    pc[EV] = "classified" =>
       LET accepts == HasKeyword(call[EV].text, AcceptKeywords)
           declines == HasKeyword(call[EV].text, DeclineKeywords)
       IN /\ (accepts /\ ~declines) => call[EV].newStatus = RSVPAccepted
          /\ (declines /\ ~accepts) => call[EV].newStatus = RSVPDeclined
          /\ (~accepts /\ ~declines) => call[EV].newStatus = NoStatus

\* a refusal in capitals with a word around it and a space before it
C16_Witness ==
    /\ pc[EV] = "classified"
    /\ call[EV].newStatus = RSVPDeclined
    /\ call[EV].text # ToLower(call[EV].text)
    /\ TrimSpace(call[EV].text) # call[EV].text
    /\ ToLower(TrimSpace(call[EV].text)) \notin DeclineKeywords
    /\ ~HasKeyword(call[EV].text, AcceptKeywords)

-----------------------------------------------------------------------------
(* C17 *)

\* C17: a text with at least one accepting and at least one declining keyword
\* is classified accepted, whichever comes first in the text.
C17_AcceptFirst ==
    pc[EV] = "classified" =>
       ((/\ HasKeyword(call[EV].text, AcceptKeywords)
         /\ HasKeyword(call[EV].text, DeclineKeywords)) =>
           call[EV].newStatus = RSVPAccepted)

\* "nope yes" is accepted
C17_Witness ==
    /\ pc[EV] = "classified"
    /\ call[EV].text = <<"n","o","p","e"," ","y","e","s">>
    /\ call[EV].newStatus = RSVPAccepted

-----------------------------------------------------------------------------
(* C18 *)

\* C18: normalising a normalised number changes nothing:
\* NormalizePhoneNumber(NormalizePhoneNumber(x)) = NormalizePhoneNumber(x) for
\* every x of digits and the characters that are stripped.
C18_Idempotent ==
    pc[CLI] = "normalized again" => call[CLI].twice = call[CLI].once

-----------------------------------------------------------------------------
(* C19 *)

\* the typed number without the characters that are not digits
Digits(phoneNumber) ==
    SelectSeq(phoneNumber,
              LAMBDA c : c \in {"0","1","2","3","4","5","6","7","8","9"})

\* C19: a number of ten digits that begins with 0 is normalised to 972 and the
\* nine digits after that 0.
C19_LocalNumber ==
    (/\ pc[CLI] = "normalized"
     /\ Len(Digits(call[CLI].phoneNumber)) = 10
     /\ Digits(call[CLI].phoneNumber)[1] = "0") =>
        call[CLI].once =
            <<"9","7","2">> \o SubSeq(Digits(call[CLI].phoneNumber), 2, 10)

-----------------------------------------------------------------------------
(* C20 *)

\* the caller t of a reader writes to a record it was handed
WritesToResult(t) ==
    /\ pc[t] = "caller"
    /\ pc'[t] = "caller"
    /\ ~call[t].changed
    /\ call'[t].changed

-----------------------------------------------------------------------------
(* C21 *)

\* the constants of models.RSVPStatus
RSVPStatuses == {RSVPNotInvited, RSVPPending, RSVPAccepted, RSVPDeclined}

\* C21, as stated: whatever calls of AddGuest and UpdateRSVP are made with a
\* status that is empty or one of the four constants, every record of the
\* slice and every record of the file has one of the four constants for its
\* status.
C21_StatusIsConstant ==
    /\ \A i \in 1..Len(guests) : guests[i].RSVPStatus \in RSVPStatuses
    /\ file.kind = "json" =>
          \A i \in 1..Len(file.data) : file.data[i].rsvp_status \in RSVPStatuses

-----------------------------------------------------------------------------
(* C22 *)

\* the file holds the records of gs, field by field and in their order
FileHoldsAll(f, gs) ==
    /\ f.kind = "json"
    /\ Len(f.data) = Len(gs)
    /\ \A i \in 1..Len(gs) :
          /\ f.data[i].phone_number = gs[i].PhoneNumber
          /\ f.data[i].name = gs[i].Name
          /\ f.data[i].rsvp_status = gs[i].RSVPStatus
          /\ f.data[i].rsvp_date = gs[i].RSVPDate
          /\ f.data[i].invited_date = gs[i].InvitedDate
          /\ IF gs[i].Notes = "" THEN "notes" \notin DOMAIN f.data[i]
             ELSE /\ "notes" \in DOMAIN f.data[i]
                  /\ f.data[i].notes = gs[i].Notes

\* the step is the return of NewStorage
NewStorageReturns == ret'.call = NewStorageArgs

\* C22: when AddGuest or UpdateRSVP returns without error the file holds the
\* whole slice; NewStorage on a file that holds the slice gives the same
\* records in the same order; NewStorage on no file or on a file of no bytes
\* gives an empty store and no error.
C22_FileIsTheSlice ==
    [][/\ (Returns(CLI) /\ ret'.at = "Save" /\ ret'.err = Nil) =>
             FileHoldsAll(file', guests')
       /\ (NewStorageReturns /\ FileHoldsAll(file, guests)) =>
             guests' = guests /\ ret'.err = Nil
       /\ (NewStorageReturns /\ file.kind \in {"missing", "empty"}) =>
             guests' = <<>> /\ ret'.err = Nil]_vars

\* the program was started on a file of two records, one of them with notes,
\* written by an UpdateRSVP that returned without error
C22_Witness ==
    /\ ret.call = NewStorageArgs
    /\ ret.err = Nil
    /\ Len(guests) = 2
    /\ \E i \in 1..2 : guests[i].Notes # "" /\ guests[i].RSVPStatus = RSVPDeclined
    /\ FileHoldsAll(file, guests)

-----------------------------------------------------------------------------
(* C23 *)

\* the phone numbers of the records of gs, in their order
PhoneNumbers(gs) == [i \in 1..Len(gs) |-> gs[i].PhoneNumber]

\* C23: no step takes a record out of the slice, changes a record's phone
\* number or moves a record: the slice grows only at its end, by one record
\* with a phone number that had none, and AddGuest for a phone number that has
\* a record and UpdateRSVP leave every record at its index.  GetAllGuests
\* returns the records in the order of the slice, which is therefore the
\* order in which the phone numbers were first added.
C23_InsertionOrder ==
    [][/\ Len(guests') >= Len(guests)
       /\ SubSeq(PhoneNumbers(guests'), 1, Len(guests)) = PhoneNumbers(guests)
       /\ Len(guests') > Len(guests) =>
             /\ Len(guests') = Len(guests) + 1
             /\ ~HasRecord(guests, guests'[Len(guests')].PhoneNumber)
       /\ (ReaderReturns(CLI) /\ call[CLI].op = "GetAllGuests") =>
             PhoneNumbers(call'[CLI].result.guests) = PhoneNumbers(guests)]_vars

\* GetAllGuests has returned the second number's record before the first
\* number's, which was added later, then added again and answered
C23_Witness ==
    /\ pc[CLI] = "caller"
    /\ call[CLI].op = "GetAllGuests"
    /\ PhoneNumbers(call[CLI].result.guests) = <<Key2, Key1>>
    /\ call[CLI].result.guests[2].Name = "Dan"
    /\ call[CLI].result.guests[2].RSVPStatus = RSVPDeclined

-----------------------------------------------------------------------------
(* C24 *)

\* the records of gs and hs differ at most at index i, and there at most in
\* the fields named
SameBut(gs, hs, i, fields) ==
    /\ Len(hs) = Len(gs)
    /\ \A j \in 1..Len(gs) :
          \A f \in DOMAIN gs[j] :
             (j # i \/ f \notin fields) => hs[j][f] = gs[j][f]

\* t is inside UpdateRSVP for a phone number that has a record
InUpdateRSVP(t) ==
    /\ pc[t] \in {"UpdateRSVP", "UpdateRSVP:87", "Save"}
    /\ call[t].op = "UpdateRSVP"
    /\ HasRecord(guests, call[t].phoneNumber)

\* C24: every step of UpdateRSVP for a phone number that has a record leaves
\* every other record, and the phone number, the name and the invitation date
\* of this one, as they were; the status becomes the one handed in, the RSVP
\* date the time of the call, and the notes the ones handed in when they are
\* not empty and stay what they were when they are.
C24_UpdateRSVPFrame ==
    [][InUpdateRSVP(CLI) =>
         LET i == IndexOf(guests, call[CLI].phoneNumber)
         IN /\ SameBut(guests, guests', i, {"RSVPStatus", "RSVPDate", "Notes"})
            /\ (pc[CLI] = "UpdateRSVP" /\ pc'[CLI] = "UpdateRSVP:87") =>
                  guests'[i].RSVPStatus = call[CLI].status
            /\ (pc[CLI] = "UpdateRSVP:87" /\ pc'[CLI] = "Save") =>
                  /\ guests'[i].RSVPStatus = guests[i].RSVPStatus
                  /\ guests'[i].RSVPDate = clock
                  /\ guests'[i].Notes = IF call[CLI].notes = ""
                                        THEN guests[i].Notes
                                        ELSE call[CLI].notes
            /\ pc[CLI] = "Save" => guests' = guests]_vars

\* UpdateRSVP with no notes has returned: the record has the new status and
\* the notes of an earlier call, and the slice has another record
C24_Witness ==
    /\ ret.thread = CLI
    /\ ret.call.op = "UpdateRSVP"
    /\ ret.call.notes = ""
    /\ Len(guests) = 2
    /\ RecordOf(guests, ret.call.phoneNumber).RSVPStatus = ret.call.status
    /\ RecordOf(guests, ret.call.phoneNumber).Notes = "late"
    /\ RecordOf(guests, ret.call.phoneNumber).Name = "Dana"

-----------------------------------------------------------------------------
(* C25 *)

\* t is in a method of the store, waiting for the mutex or holding it
InStore(t) == pc[t] \in {"Lock", "RLock"} \/ InWriter(t) \/ InReader(t)

\* some goroutine in a method of the store can take its next step
CanStep ==
    \E t \in Threads :
       \/ InWriter(t)
       \/ InReader(t)
       \/ pc[t] = "Lock" /\ CanLock
       \/ pc[t] = "RLock" /\ CanRLock

\* C25: with two goroutines calling AddGuest, UpdateRSVP, GetGuest,
\* GetAllGuests and GetGuestsByStatus in any interleaving and a fair
\* scheduler, every call returns, whether Save succeeds or fails, and the
\* goroutine that returned holds the mutex no more; the mutex is held only by
\* goroutines between Lock and Unlock (Save runs under the writer's lock and
\* takes none), and whenever a goroutine is in a method some goroutine can
\* take a step.
C25_EveryCallReturns ==
    /\ [](\A t \in Threads :
            /\ mu.writer = t <=> InWriter(t)
            /\ t \in mu.readers <=> InReader(t))
    /\ []((\E t \in Threads : InStore(t)) => CanStep)
    /\ \A t \in Threads : InStore(t) ~> ~InStore(t)

\* one goroutine is about to save under the mutex while the other waits to
\* read
C25_Witness ==
    /\ pc[CLI] = "Save"
    /\ mu.writer = CLI
    /\ pc[EV] = "RLock"
    /\ call[CLI].op = "AddGuest"

-----------------------------------------------------------------------------
(* C26 *)

\* the phone numbers the model's calls work with
Keys == {Normalized[p] : p \in RawPhones} \cup {PhoneNumberOf[sender] : sender \in Senders}

\* C26: when SendInvitation attempts the send, the number the invitation goes
\* to has a record in the slice; no step takes a record out of the slice; and
\* HandleMessage for a sender whose number has a record does not return as for
\* an unknown sender.  So, however the calls of the two goroutines interleave,
\* a reply from a number an invitation was sent to finds the guest.
C26_StoredBeforeSent ==
    [][/\ \A outcome \in SendOutcomes :
             SendInvitationSendOf(CLI, outcome) =>
                /\ Len(ret'.sends) = 1
                /\ HasRecord(guests, ret'.sends[1].to)
       /\ \A key \in Keys : HasRecord(guests, key) => HasRecord(guests', key)
       /\ \A msg \in InboundMessages :
             (/\ ~msg.isNil
              /\ msg.text # <<>>
              /\ HasRecord(guests, PhoneNumberOf[msg.sender])
              /\ HandleMessageOf(EV, msg)) =>
                ret'.at # "HandleMessage:59"]_vars

\* the event goroutine has found the record of a sender whose invitation the
\* CLI goroutine has stored and is about to send
C26_Witness ==
    /\ pc[CLI] = "SendInvitation"
    /\ pc[EV] = "UpdateRSVP"
    /\ call[EV].phoneNumber = Normalized[call[CLI].phoneNumber]
    /\ call[EV].phoneNumber = PhoneNumberOf[Sender2]
    /\ HasRecord(guests, call[EV].phoneNumber)

-----------------------------------------------------------------------------
(* C27 *)

\* the record has an RSVP date exactly when its status is an answer
DatedIffResponded(status, rsvpDate) ==
    rsvpDate # ZeroTime <=> status \in Responded

\* C27: whatever calls of SendInvitation and HandleMessage are made, and
\* whether saves and sends fail or not, every record of the slice and of the
\* file has an RSVP date exactly when its status is accepted or declined; a
\* SendInvitation for a guest who has answered sets the record to pending and
\* its RSVP date to the zero time.
C27_DateIffResponded ==
    /\ [](/\ \A i \in 1..Len(guests) :
               DatedIffResponded(guests[i].RSVPStatus, guests[i].RSVPDate)
          /\ file.kind = "json" =>
               \A i \in 1..Len(file.data) :
                  DatedIffResponded(file.data[i].rsvp_status,
                                    file.data[i].rsvp_date))
    /\ [][\A phoneNumber \in RawPhones, name \in Names, outcome \in SaveOutcomes :
            (/\ HasRecord(guests, Normalized[phoneNumber])
             /\ SendInvitationOf(CLI, phoneNumber, name, outcome)) =>
                /\ RecordOf(guests', Normalized[phoneNumber]).RSVPStatus
                      = RSVPPending
                /\ RecordOf(guests', Normalized[phoneNumber]).RSVPDate
                      = ZeroTime]_vars

\* a guest who had accepted is invited again and the save fails: the record
\* is pending without an RSVP date, the file still has the answer and its date
C27_Witness ==
    /\ ret.at = "SendInvitation:114"
    /\ file.kind = "json"
    /\ \E i \in 1..Len(guests) :
          /\ guests[i].PhoneNumber = Normalized[ret.call.phoneNumber]
          /\ guests[i].RSVPStatus = RSVPPending
          /\ guests[i].RSVPDate = ZeroTime
          /\ i <= Len(file.data)
          /\ file.data[i].rsvp_status = RSVPAccepted
          /\ file.data[i].rsvp_date # ZeroTime

-----------------------------------------------------------------------------
(* C28 *)

\* C28: when the Save inside AddGuest fails, SendInvitation returns an error
\* and has attempted no send, and the slice has the guest's record, pending;
\* when the Save inside UpdateRSVP fails, HandleMessage returns an error and
\* has attempted no send, and the record in the slice has the new status and
\* its RSVP date.
C28_NoSendAfterFailedSave ==
    [][\A outcome \in SaveOutcomes \ {"ok"} :
          /\ \A phoneNumber \in RawPhones, name \in Names :
                SendInvitationOf(CLI, phoneNumber, name, outcome) =>
                   /\ pc'[CLI] = "idle"
                   /\ ret'.thread = CLI
                   /\ ret'.err = ErrAddGuest
                   /\ ret'.sends = <<>>
                   /\ HasRecord(guests', Normalized[phoneNumber])
                   /\ RecordOf(guests', Normalized[phoneNumber]).Name = name
                   /\ RecordOf(guests', Normalized[phoneNumber]).RSVPStatus
                         = RSVPPending
          /\ (HandleMessageUpdateRSVPOf(EV, outcome)
                /\ HasRecord(guests, call[EV].phoneNumber)) =>
                   /\ pc'[EV] = "idle"
                   /\ ret'.thread = EV
                   /\ ret'.err = ErrUpdateRSVP
                   /\ ret'.sends = <<>>
                   /\ RecordOf(guests', call[EV].phoneNumber).RSVPStatus
                         = call[EV].newStatus
                   /\ RecordOf(guests', call[EV].phoneNumber).RSVPDate = clock]_vars

\* HandleMessage has returned the error of UpdateRSVP and sent nothing: the
\* slice has the guest's refusal, the file has the guest as pending
C28_Witness ==
    /\ ret.at = "HandleMessage:90"
    /\ ret.err = ErrUpdateRSVP
    /\ ret.sends = <<>>
    /\ ret.call.newStatus = RSVPDeclined
    /\ file.kind = "json"
    /\ \E i \in 1..Len(guests) :
          /\ guests[i].PhoneNumber = ret.call.phoneNumber
          /\ guests[i].RSVPStatus = RSVPDeclined
          /\ i <= Len(file.data)
          /\ file.data[i].rsvp_status = RSVPPending

-----------------------------------------------------------------------------
(* C29 *)

\* the record at index j of the slice is not in the file as it is in the slice
Unsaved(j) ==
    \/ file.kind # "json"
    \/ j > Len(file.data)
    \/ file.data[j] # MarshalGuest(guests[j])

\* the index of the record t's call of AddGuest or UpdateRSVP has written
Written(t) == IF call[t].i = 0 THEN Len(guests) ELSE call[t].i

\* C29: when a call of AddGuest or UpdateRSVP comes to a Save that succeeds
\* while the slice has a record, other than the one this call wrote, that the
\* file does not have as it is (an earlier call's Save failed), the file after
\* the Save holds the whole slice, that record included.
C29_LaterSaveCatchesUp ==
    [][(/\ pc[CLI] = "Save"
        /\ Returns(CLI)
        /\ ret'.err = Nil
        /\ \E j \in 1..Len(guests) : j # Written(CLI) /\ Unsaved(j)) =>
           /\ guests' = guests
           /\ file'.kind = "json"
           /\ Len(file'.data) = Len(guests)
           /\ \A j \in 1..Len(guests) : file'.data[j] = MarshalGuest(guests[j])]_vars

\* AddGuest for the second number is about to save; the first number's
\* refusal and its notes are in the slice and not in the file, which has the
\* guest as pending
C29_Witness ==
    /\ pc[CLI] = "Save"
    /\ call[CLI].op = "AddGuest"
    /\ Len(guests) = 2
    /\ Written(CLI) = 2
    /\ guests[1].RSVPStatus = RSVPDeclined
    /\ guests[1].Notes = "late"
    /\ file.kind = "json"
    /\ Len(file.data) = 1
    /\ file.data[1].rsvp_status = RSVPPending

====
